---- MODULE Spec2Model ----
(***************************************************************************)
(* A model of pipeline_app.py: the review pipeline                         *)
(*   scrape (Google Play, App Store) -> dedup -> classify (LLM) -> persist *)
(* run_pipeline is one sequential procedure; pc is its position.  The      *)
(* review-source clients, the datastore and the inference provider are     *)
(* external: what they return (or that they raise) is chosen with \E.       *)
(***************************************************************************)
EXTENDS Integers, Sequences, FiniteSets, TLC

(***************************************************************************)
(* Configuration (pipeline_app.py:18-29).  The numeric constants keep the  *)
(* source's names; their values are scaled down so that the loops they     *)
(* bound can be explored exhaustively.                                     *)
(***************************************************************************)
\* SCRAPE_DAYS = 90 in the source; days are the model's unit of time.
SCRAPE_DAYS == 1
\* MAX_REVIEWS_PER_SOURCE = 1000 in the source.
MAX_REVIEWS_PER_SOURCE == 3
\* count=200 in the call of google_reviews: the provider's page size.
PLAY_PAGE_COUNT == 2
\* PROCESSING_BATCH_SIZE = 50 in the source.
PROCESSING_BATCH_SIZE == 2

TOPIC_LISTS ==
  [ grocery |-> << "Delivery Experience", "Product Quality", "Product Availability",
                   "Pricing & Value", "App Experience (UI/UX)", "Payments & Refunds",
                   "Customer Support", "Offers & Discounts",
                   "Order Accuracy & Packaging", "Miscellaneous" >>,
    games   |-> << "Game Experience & Variety", "Trust & Fair Play", "Winning & Payouts",
                   "Payments & Withdrawals", "Rewards & Bonuses", "Account & Verification",
                   "App Performance & UI", "Customer Support", "Ads & Promotions",
                   "Overall Positive Experience", "Overall Negative Experience",
                   "Miscellaneous" >> ]

\* TOPIC_LISTS.get(industry): None (here the empty list, equally falsy) for
\* an unknown key.
TopicListGet(ind) ==
  IF ind \in DOMAIN TOPIC_LISTS THEN TOPIC_LISTS[ind] ELSE << >>

\* x in list
InList(x, list) == \E k \in 1..Len(list) : list[k] = x

(***************************************************************************)
(* Bounds of the model.                                                    *)
(***************************************************************************)
\* the day the run happens (datetime.now()); review dates are 0..Today
Today == 2
\* longest reply of the inference provider, in tokens
MaxReply == 5
\* most reviews a review source holds
MaxSource == 4

Min(a, b) == IF a < b THEN a ELSE b

(***************************************************************************)
(* Review text.  A text is a sequence of characters; " " stands for any    *)
(* whitespace character.                                                   *)
(***************************************************************************)
Texts == { << >>, << " " >>, << "a" >>, << " ", "a", " " >> }

IsSpace(c) == c = " "

\* str.strip(): drop the leading and the trailing whitespace
RECURSIVE LStrip(_)
LStrip(s) == IF s # << >> /\ IsSpace(Head(s)) THEN LStrip(Tail(s)) ELSE s

RECURSIVE RStrip(_)
RStrip(s) ==
  IF s # << >> /\ IsSpace(s[Len(s)]) THEN RStrip(SubSeq(s, 1, Len(s) - 1)) ELSE s

Strip(s) == RStrip(LStrip(s))

(***************************************************************************)
(* The inference provider's reply: free text, modelled as a sequence of    *)
(* tokens.  "{" and "}" are the braces; prose is any run of characters     *)
(* without braces; a field is one  "key": "value"  member of a JSON object *)
(* (with the comma that separates it from its neighbours).                 *)
(***************************************************************************)
LBrace == [kind |-> "{", key |-> "", val |-> ""]
RBrace == [kind |-> "}", key |-> "", val |-> ""]
Prose  == [kind |-> "prose", key |-> "", val |-> ""]
Field(k, v) == [kind |-> "field", key |-> k, val |-> v]

Tokens ==
  { LBrace, RBrace, Prose,
    Field("sentiment", "Positive"),
    Field("topic", "Pricing & Value"),
    Field("topic", "Trust & Fair Play") }

SeqsUpTo(S, n) == UNION { [1..k -> S] : k \in 0..n }

\* every reply of at most MaxReply tokens
Replies == SeqsUpTo(Tokens, MaxReply)

\* model.generate_content(prompt).text either raises or returns a text
Raised == [kind |-> "raised", text |-> << >>]
Returned(t) == [kind |-> "text", text |-> t]
\* no call was made
NoOutcome == [kind |-> "none", text |-> << >>]

Outcomes(R) == { Raised } \cup { Returned(t) : t \in R }

(***************************************************************************)
(* analyze_reviews_with_llm, one record (pipeline_app.py:96-121).          *)
(***************************************************************************)
\* the test without strip(): only the empty text is skipped
IsEmptyText(review) == review.ReviewText = << >>

\* review.get('Review Text', '').strip() is empty: the record is skipped
IsBlankText(review) == Strip(review.ReviewText) = << >>

\* positions of the braces in a text
LBracePositions(t) == { k \in 1..Len(t) : t[k] = LBrace }
RBracePositions(t) == { k \in 1..Len(t) : t[k] = RBrace }

SetMin(S) == CHOOSE x \in S : \A y \in S : x <= y
SetMax(S) == CHOOSE x \in S : \A y \in S : x >= y

\* re.search(r'\{.*\}', text, re.DOTALL): the leftmost match starts at the
\* first "{" that has a "}" after it and, .* being greedy, ends at the
\* LAST "}" of the text.  << >> stands for None (a match has two braces).
RegexSearch(t) ==
  IF LBracePositions(t) = {} \/ RBracePositions(t) = {} THEN << >>
  ELSE LET first == SetMin(LBracePositions(t))
           last  == SetMax(RBracePositions(t))
       IN  IF first < last THEN SubSeq(t, first, last) ELSE << >>

\* json.loads(json_string) of a string that starts with "{" and ends with
\* "}": it decodes iff everything between the braces is a member list.
JsonDecodes(js) == \A k \in 2..(Len(js) - 1) : js[k].kind = "field"

\* the members of the decoded object, in the order written
JsonMembers(js) == SubSeq(js, 2, Len(js) - 1)

\* result.get(key, default): json.loads keeps the last of repeated keys
DictGet(members, key, default) ==
  LET at == { k \in 1..Len(members) : members[k].key = key }
  IN  IF at = {} THEN default ELSE members[SetMax(at)].val

\* an except branch that marks the sentiment and forgets the topic
FallbackSentimentOnly(review) == [review EXCEPT !.Sentiment = "Error"]

\* the except branch (lines 116-120)
Fallback(review) ==
  [review EXCEPT !.Sentiment = "Error", !.Topic = "Miscellaneous"]

\* lines 109-115 without line 111: the decoded topic is taken as it is
ApplyResultAnyTopic(review, members, topic_list) ==
  [review EXCEPT !.Sentiment = DictGet(members, "sentiment", "Error"),
                 !.Topic = DictGet(members, "topic", "Miscellaneous")]

\* lines 109-115 with one fallback for both fields: a missing field or a
\* topic outside the list marks the whole record
ApplyResultOrFallback(review, members, topic_list) ==
  IF /\ \E k \in 1..Len(members) : members[k].key = "sentiment"
     /\ \E k \in 1..Len(members) : members[k].key = "topic"
     /\ InList(DictGet(members, "topic", "Miscellaneous"), topic_list)
  THEN [review EXCEPT !.Sentiment = DictGet(members, "sentiment", "Error"),
                      !.Topic = DictGet(members, "topic", "Miscellaneous")]
  ELSE [review EXCEPT !.Sentiment = "Error", !.Topic = "Miscellaneous"]

\* lines 109-115: the decoded object sets the two fields
ApplyResult(review, members, topic_list) ==
  LET topic0 == DictGet(members, "topic", "Miscellaneous")
      topic  == IF InList(topic0, topic_list) THEN topic0 ELSE "Miscellaneous"
  IN  [review EXCEPT !.Sentiment = DictGet(members, "sentiment", "Error"),
                     !.Topic = topic]

\* lines 104-120 for a record with text: the try block and its handler
AnalyzeOne(review, outcome, topic_list) ==
  IF outcome.kind = "raised" THEN Fallback(review)
  ELSE LET match == RegexSearch(outcome.text)
       IN  IF match = << >> THEN Fallback(review)
           ELSE IF ~JsonDecodes(match) THEN Fallback(review)
           ELSE ApplyResult(review, JsonMembers(match), topic_list)

(***************************************************************************)
(* The review sources.  A source holds its reviews newest first            *)
(* (sort=NEWEST); the k-th review of a store has the id <<store, k>>.       *)
(***************************************************************************)
GoogleId  == "com.example.app"
AppleName == "example-app"

cutoff_date == Today - SCRAPE_DAYS

Raw(store, k, at, content) ==
  [reviewId |-> << store, k >>, at |-> at, content |-> content]

NewestFirst(dates) == \A k \in 1..(Len(dates) - 1) : dates[k] >= dates[k + 1]

\* the sources of at most n reviews of a store, dated in Dates and newest
\* first, with texts in Contents
Sources(store, n, Dates, Contents) ==
  UNION { { [k \in 1..len |-> Raw(store, k, d[k], c[k])] :
              d \in { x \in [1..len -> Dates] : NewestFirst(x) },
              c \in [1..len -> Contents] } : len \in 0..n }

None == [some |-> FALSE, pos |-> 0]
Cursor(p) == [some |-> TRUE, pos |-> p]

\* google_reviews(app_id, ..., count=200, continuation_token=token), when
\* it does not raise: the next page of the source and the token to continue
\* with.  With its last page the provider may signal exhaustion (no token)
\* or hand out a token whose page will be empty.
GoogleReviews(source, tok) ==
  LET start == IF tok.some THEN tok.pos ELSE 0
      stop  == Min(start + PLAY_PAGE_COUNT, Len(source))
      page  == SubSeq(source, start + 1, stop)
  IN  { [result |-> page, token |-> t] :
          t \in IF stop < Len(source) THEN { Cursor(stop) }
                                      ELSE { None, Cursor(stop) } }

\* line 69: the normalized record of a Google Play review
NormalizePlay(r, app_id) ==
  [id |-> r.reviewId, store |-> "Google Play", appid |-> app_id, Date |-> r.at,
   ReviewText |-> r.content, Topic |-> "N/A", Sentiment |-> "N/A"]

\* line 86: the normalized record of an App Store review
NormalizeApple(r, app_name) ==
  [id |-> r.reviewId, store |-> "App Store", appid |-> app_name, Date |-> r.at,
   ReviewText |-> r.content, Topic |-> "N/A", Sentiment |-> "N/A"]

\* the for loop without the date test of line 65: only the cap stops it
RECURSIVE ScanPageNoCutoff(_, _, _, _)
ScanPageNoCutoff(result, st, app_id, cutoff) ==
  IF result = << >> THEN st
  ELSE LET r == Head(result)
       IN  IF st.processed_count >= MAX_REVIEWS_PER_SOURCE
           THEN [st EXCEPT !.token = None]
           ELSE ScanPageNoCutoff(Tail(result),
                         [st EXCEPT !.processed_count = @ + 1,
                                    !.all_reviews = Append(@, NormalizePlay(r, app_id))],
                         app_id, cutoff)

\* lines 64-69: the for loop over one page; st is the fetcher's locals
RECURSIVE ScanPage(_, _, _, _)
ScanPage(result, st, app_id, cutoff) ==
  IF result = << >> THEN st
  ELSE LET r == Head(result)
       IN  IF r.at < cutoff \/ st.processed_count >= MAX_REVIEWS_PER_SOURCE
           THEN [st EXCEPT !.token = None]
           ELSE ScanPage(Tail(result),
                         [st EXCEPT !.processed_count = @ + 1,
                                    !.all_reviews = Append(@, NormalizePlay(r, app_id))],
                         app_id, cutoff)

\* lines 82-86: the for loop over scraper.reviews
RECURSIVE ScanApple(_, _, _)
ScanApple(reviews, app_name, cutoff) ==
  IF reviews = << >> THEN << >>
  ELSE LET r == Head(reviews)
       IN  IF r.at < cutoff THEN << >>
           ELSE << NormalizeApple(r, app_name) >>
                  \o ScanApple(Tail(reviews), app_name, cutoff)

(***************************************************************************)
(* The datastore: the rows of raw_reviews, of which the model keeps the    *)
(* key and the app_id (what the select reads).                             *)
(***************************************************************************)
Row(r) == [id |-> r.id, app_id |-> r.appid]

\* table('raw_reviews').select('id').eq('app_id', app_id): the ids
SelectIds(rows, app_id) == { row.id : row \in { x \in rows : x.app_id = app_id } }

\* table('raw_reviews').upsert(records): keyed by id
Upsert(rows, records) ==
  LET new == { Row(records[k]) : k \in 1..Len(records) }
  IN  { x \in rows : \A y \in new : y.id # x.id } \cup new

\* the filter with its test inverted: "in" for "not in"
RECURSIVE DedupKeepsStored(_, _)
DedupKeepsStored(candidates, existing) ==
  IF candidates = << >> THEN << >>
  ELSE IF Head(candidates).id \in existing
       THEN << Head(candidates) >> \o DedupKeepsStored(Tail(candidates), existing)
       ELSE DedupKeepsStored(Tail(candidates), existing)

\* line 176: the candidates whose id is not stored yet, in their order
RECURSIVE Dedup(_, _)
Dedup(candidates, existing) ==
  IF candidates = << >> THEN << >>
  ELSE IF Head(candidates).id \notin existing
       THEN << Head(candidates) >> \o Dedup(Tail(candidates), existing)
       ELSE Dedup(Tail(candidates), existing)

\* the filter without its list of sentinels
IsValidAnyTopic(r) == r.Topic # ""

\* line 200: the records the Persister is given
IsValid(r) == r.Topic # "" /\ r.Topic \notin { "N/A", "Error" }

RECURSIVE ValidReviews(_)
ValidReviews(analyzed) ==
  IF analyzed = << >> THEN << >>
  ELSE IF IsValid(Head(analyzed))
       THEN << Head(analyzed) >> \o ValidReviews(Tail(analyzed))
       ELSE ValidReviews(Tail(analyzed))

\* the slice one too long: [i:i + PROCESSING_BATCH_SIZE + 1]
SliceOneMore(list, from) ==
  SubSeq(list, from + 1, Min(from + PROCESSING_BATCH_SIZE + 1, Len(list)))

\* line 195: reviews_to_process[i:i + PROCESSING_BATCH_SIZE]
Slice(list, from) ==
  SubSeq(list, from + 1, Min(from + PROCESSING_BATCH_SIZE, Len(list)))

(***************************************************************************)
(* State.                                                                  *)
(***************************************************************************)
VARIABLES
  \* the arguments of run_pipeline (the UI's inputs); "" is an empty field
  industry, google_app_id, apple_app_name,
  \* the collaborators: what each review source holds, the datastore's rows
  playSource, appleSource, db,
  \* run_pipeline: its position and its locals
  pc, topic_list, primary_app_id, all_scraped_reviews, existing_ids,
  reviews_to_process, i, batch, valid_reviews, total_synced_count,
  \* scrape_play_store's locals
  all_reviews, processed_count, token, result,
  \* analyze_reviews_with_llm's locals: the output, and how many records of
  \* review_list the loop has been through
  analyzed_reviews, j,
  \* what the run did, for the properties: which clients were called and
  \* which review source raised, what each fetcher returned, the last
  \* outcome of the inference call, the chunks given to the Classifier, the
  \* ids sent to the model, and for each upsert the chunk, the ids offered
  \* and the written-row count returned (0: it raised)
  called, raised, playReturned, appleReturned, reply, chunkLog,
  inferenceLog, upsertLog,
  \* the runs so far: which call of run_pipeline this is, and the ids the
  \* earlier calls wrote to the datastore
  run, persisted

inputVars == << industry, google_app_id, apple_app_name, playSource, appleSource >>
playVars  == << all_reviews, processed_count, token, result >>
loopVars  == << i, batch, valid_reviews, total_synced_count, analyzed_reviews, j >>
logVars   == << reply, chunkLog, inferenceLog, upsertLog >>
fetchLog  == << called, raised, playReturned, appleReturned >>
runVars   == << run, persisted >>

vars == << industry, google_app_id, apple_app_name, playSource, appleSource, db,
           pc, topic_list, primary_app_id, all_scraped_reviews, existing_ids,
           reviews_to_process, i, batch, valid_reviews, total_synced_count,
           all_reviews, processed_count, token, result, analyzed_reviews, j,
           called, raised, playReturned, appleReturned, reply, chunkLog,
           inferenceLog, upsertLog, run, persisted >>

\* the locals of the loops and the record of a run, before they are used
Fresh ==
  /\ all_scraped_reviews = << >>
  /\ existing_ids = {}
  /\ reviews_to_process = << >>
  /\ i = 0
  /\ j = 0
  /\ valid_reviews = << >>
  /\ total_synced_count = 0
  /\ all_reviews = << >>
  /\ processed_count = 0
  /\ token = None
  /\ result = << >>
  /\ analyzed_reviews = << >>
  /\ called = {}
  /\ raised = {}
  /\ playReturned = << >>
  /\ appleReturned = << >>
  /\ reply = NoOutcome
  /\ chunkLog = << >>
  /\ inferenceLog = << >>
  /\ upsertLog = << >>

(***************************************************************************)
(* run_pipeline, step by step.                                             *)
(***************************************************************************)
\* a check of the identifiers alone
ValidateIdentifiersOnly ==
  /\ pc = "validate"
  /\ topic_list' = TopicListGet(industry)
  /\ primary_app_id' = IF google_app_id # "" THEN google_app_id ELSE apple_app_name
  /\ pc' = IF primary_app_id' = "" THEN "abort" ELSE "scrape_play"
  /\ UNCHANGED << inputVars, runVars, db, all_scraped_reviews, existing_ids,
                  reviews_to_process, loopVars, playVars, fetchLog, logVars >>

\* lines 139-147
Validate ==
  /\ pc = "validate"
  /\ topic_list' = TopicListGet(industry)
  /\ primary_app_id' = IF google_app_id # "" THEN google_app_id ELSE apple_app_name
  /\ pc' = IF topic_list' = << >> \/ primary_app_id' = "" THEN "abort"
           ELSE "scrape_play"
  /\ UNCHANGED << inputVars, runVars, db, all_scraped_reviews, existing_ids,
                  reviews_to_process, loopVars, playVars, fetchLog, logVars >>

\* line 153 and lines 58-59: scrape_play_store is called if there is an id
ScrapePlayStart ==
  /\ pc = "scrape_play"
  /\ IF google_app_id # ""
     THEN /\ called' = called \cup { "play" }
          /\ pc' = "play_loop"
     ELSE /\ pc' = "scrape_apple"
          /\ UNCHANGED called
  /\ all_reviews' = << >>
  /\ processed_count' = 0
  /\ token' = None
  /\ result' = << >>
  /\ UNCHANGED << inputVars, runVars, db, topic_list, primary_app_id, all_scraped_reviews,
                  existing_ids, reviews_to_process, loopVars, raised,
                  playReturned, appleReturned, logVars >>

\* lines 74-75 and 153: scrape_play_store returns reviews, which run_pipeline
\* appends to all_scraped_reviews
PlayReturns(reviews) ==
  /\ playReturned' = reviews
  /\ all_scraped_reviews' = all_scraped_reviews \o reviews
  /\ pc' = "scrape_apple"

\* lines 60-70: one turn of the while loop whose call of the client returns
PlayPage ==
  /\ pc = "play_loop"
  /\ \E resp \in GoogleReviews(playSource, token) :
       LET st0  == [all_reviews |-> all_reviews,
                    processed_count |-> processed_count, token |-> resp.token]
           brk  == resp.result = << >> \/ ~resp.token.some
           st   == IF brk THEN st0
                   ELSE ScanPage(resp.result, st0, google_app_id, cutoff_date)
           stop == \/ brk
                   \/ ~st.token.some
                   \/ st.processed_count >= MAX_REVIEWS_PER_SOURCE
       IN  /\ all_reviews' = st.all_reviews
           /\ processed_count' = st.processed_count
           /\ token' = st.token
           /\ result' = resp.result
           /\ IF stop THEN PlayReturns(st.all_reviews)
              ELSE UNCHANGED << pc, playReturned, all_scraped_reviews >>
  /\ UNCHANGED << inputVars, runVars, db, topic_list, primary_app_id, existing_ids,
                  reviews_to_process, loopVars, called, raised, appleReturned,
                  logVars >>

\* a handler that gives up the run instead of the source
PlayRaiseAborts ==
  /\ pc = "play_loop"
  /\ raised' = raised \cup { "play" }
  /\ playReturned' = all_reviews
  /\ pc' = "abort"
  /\ UNCHANGED << inputVars, runVars, db, topic_list, primary_app_id, all_scraped_reviews,
                  existing_ids, reviews_to_process, loopVars, playVars, called,
                  appleReturned, logVars >>

\* lines 71-73: the client raises; the loop ends with what was collected
PlayRaise ==
  /\ pc = "play_loop"
  /\ raised' = raised \cup { "play" }
  /\ PlayReturns(all_reviews)
  /\ UNCHANGED << inputVars, runVars, db, topic_list, primary_app_id, existing_ids,
                  reviews_to_process, loopVars, playVars, called, appleReturned,
                  logVars >>

\* line 157 and lines 77-91: scrape_app_store, if there is a name.  The
\* client (AppStore(...), scraper.review(...)) raises or has fetched
\* scraper.reviews; how_many (line 82) is what the client is asked for, and
\* the loop of lines 84-86 goes through whatever scraper.reviews holds.
ScrapeApple ==
  /\ pc = "scrape_apple"
  /\ IF apple_app_name = ""
     THEN UNCHANGED << called, raised, appleReturned, all_scraped_reviews >>
     ELSE /\ called' = called \cup { "apple" }
          /\ \E fails \in BOOLEAN :
               LET reviews == IF fails THEN << >>
                              ELSE ScanApple(appleSource, apple_app_name, cutoff_date)
               IN  /\ raised' = IF fails THEN raised \cup { "apple" } ELSE raised
                   /\ appleReturned' = reviews
                   /\ all_scraped_reviews' = all_scraped_reviews \o reviews
  /\ pc' = "check_scraped"
  /\ UNCHANGED << inputVars, runVars, db, topic_list, primary_app_id, existing_ids,
                  reviews_to_process, loopVars, playVars, playReturned, logVars >>

\* lines 161-166 and get_supabase_client (44-55): nothing scraped ends the
\* run; otherwise the datastore is connected to, which fails if the
\* credentials are not set (create_client is not called) or create_client
\* raises
Connect ==
  /\ pc = "check_scraped"
  /\ IF all_scraped_reviews = << >>
     THEN /\ pc' = "no_reviews"
          /\ UNCHANGED called
     ELSE \E outcome \in { "no_credentials", "raises", "connected" } :
            /\ called' = IF outcome = "no_credentials" THEN called
                         ELSE called \cup { "create_client" }
            /\ pc' = IF outcome = "connected" THEN "dedup" ELSE "abort"
  /\ UNCHANGED << inputVars, runVars, db, topic_list, primary_app_id, all_scraped_reviews,
                  existing_ids, reviews_to_process, loopVars, playVars, raised,
                  playReturned, appleReturned, logVars >>

\* a query outside any try: its exception leaves run_pipeline
FetchExistingUnguarded ==
  /\ pc = "dedup"
  /\ called' = called \cup { "select" }
  /\ \E fails \in BOOLEAN :
       IF fails
       THEN /\ pc' = "raised"
            /\ UNCHANGED << existing_ids, reviews_to_process >>
       ELSE /\ existing_ids' = SelectIds(db, primary_app_id)
            /\ reviews_to_process' = Dedup(all_scraped_reviews, existing_ids')
            /\ pc' = IF reviews_to_process' = << >> THEN "no_new_reviews"
                     ELSE "llm_setup"
  /\ UNCHANGED << inputVars, runVars, db, topic_list, primary_app_id, all_scraped_reviews,
                  loopVars, playVars, raised, playReturned, appleReturned,
                  logVars >>

\* lines 168-180: the existing ids are read (or the query raises) and the
\* scraped reviews are filtered against them
FetchExistingAndDedup ==
  /\ pc = "dedup"
  /\ called' = called \cup { "select" }
  /\ \E fails \in BOOLEAN :
       IF fails
       THEN /\ pc' = "abort"
            /\ UNCHANGED << existing_ids, reviews_to_process >>
       ELSE /\ existing_ids' = SelectIds(db, primary_app_id)
            /\ reviews_to_process' = Dedup(all_scraped_reviews, existing_ids')
            /\ pc' = IF reviews_to_process' = << >> THEN "no_new_reviews"
                     ELSE "llm_setup"
  /\ UNCHANGED << inputVars, runVars, db, topic_list, primary_app_id, all_scraped_reviews,
                  loopVars, playVars, raised, playReturned, appleReturned,
                  logVars >>

\* lines 182-193: the key is missing (genai is not called) or genai's
\* setup raises (abort), or the loop starts
LlmSetup ==
  /\ pc = "llm_setup"
  /\ \E outcome \in { "no_key", "raises", "ready" } :
       /\ called' = IF outcome = "no_key" THEN called
                    ELSE called \cup { "genai" }
       /\ IF outcome = "ready"
          THEN /\ total_synced_count' = 0
               /\ i' = 0
               /\ pc' = "loop"
          ELSE /\ pc' = "abort"
               /\ UNCHANGED << total_synced_count, i >>
  /\ UNCHANGED << inputVars, runVars, db, topic_list, primary_app_id, all_scraped_reviews,
                  existing_ids, reviews_to_process, batch, valid_reviews,
                  analyzed_reviews, j, playVars, raised, playReturned,
                  appleReturned, logVars >>

Ids(list) == [k \in 1..Len(list) |-> list[k].id]

\* lines 194-199 and 94-95: the next chunk is cut and given to
\* analyze_reviews_with_llm, or the loop is over (line 212)
NextBatch ==
  /\ pc = "loop"
  /\ IF i < Len(reviews_to_process)
     THEN /\ batch' = Slice(reviews_to_process, i)
          /\ chunkLog' = Append(chunkLog, Ids(batch'))
          /\ pc' = "classify"
     ELSE /\ pc' = "done"
          /\ UNCHANGED << batch, chunkLog >>
  /\ analyzed_reviews' = << >>
  /\ j' = 0
  /\ UNCHANGED << inputVars, runVars, db, topic_list, primary_app_id, all_scraped_reviews,
                  existing_ids, reviews_to_process, i, valid_reviews,
                  total_synced_count, playVars, fetchLog, reply, inferenceLog,
                  upsertLog >>

\* a Classifier that asks the model once more when the first reply gave no
\* sentiment
ClassifyRecordAsksAgain(R) ==
  /\ pc = "classify"
  /\ j < Len(batch)
  /\ j' = j + 1
  /\ LET review == batch[j + 1]
     IN  IF IsBlankText(review)
         THEN /\ analyzed_reviews' = Append(analyzed_reviews, review)
              /\ reply' = NoOutcome
              /\ UNCHANGED inferenceLog
         ELSE \E first \in Outcomes(R), outcome \in Outcomes(R) :
                /\ analyzed_reviews' =
                     Append(analyzed_reviews, AnalyzeOne(review, outcome, topic_list))
                /\ reply' = outcome
                /\ inferenceLog' =
                     IF AnalyzeOne(review, first, topic_list).Sentiment = "Error"
                     THEN inferenceLog \o << review.id, review.id >>
                     ELSE Append(inferenceLog, review.id)
  /\ UNCHANGED << inputVars, runVars, db, pc, topic_list, primary_app_id,
                  all_scraped_reviews, existing_ids, reviews_to_process, i, batch,
                  valid_reviews, total_synced_count, playVars, fetchLog, chunkLog,
                  upsertLog >>

\* lines 96-121: one turn of the Classifier's loop; R is what the provider
\* may reply
ClassifyRecord(R) ==
  /\ pc = "classify"
  /\ j < Len(batch)
  /\ j' = j + 1
  /\ LET review == batch[j + 1]
     IN  IF IsBlankText(review)
         THEN /\ analyzed_reviews' = Append(analyzed_reviews, review)
              /\ reply' = NoOutcome
              /\ UNCHANGED inferenceLog
         ELSE \E outcome \in Outcomes(R) :
                /\ analyzed_reviews' =
                     Append(analyzed_reviews, AnalyzeOne(review, outcome, topic_list))
                /\ reply' = outcome
                /\ inferenceLog' = Append(inferenceLog, review.id)
  /\ UNCHANGED << inputVars, runVars, db, pc, topic_list, primary_app_id,
                  all_scraped_reviews, existing_ids, reviews_to_process, i, batch,
                  valid_reviews, total_synced_count, playVars, fetchLog, chunkLog,
                  upsertLog >>

\* lines 122 and 200-204: the Classifier returns; the records without a
\* topic are filtered out, and a chunk with none left is skipped
FilterValid ==
  /\ pc = "classify"
  /\ j = Len(batch)
  /\ valid_reviews' = ValidReviews(analyzed_reviews)
  /\ IF valid_reviews' = << >>
     THEN /\ i' = i + PROCESSING_BATCH_SIZE
          /\ pc' = "loop"
     ELSE /\ pc' = "sync"
          /\ UNCHANGED i
  /\ reply' = NoOutcome
  /\ UNCHANGED << inputVars, runVars, db, topic_list, primary_app_id, all_scraped_reviews,
                  existing_ids, reviews_to_process, batch, total_synced_count,
                  analyzed_reviews, j, playVars, fetchLog, chunkLog, inferenceLog,
                  upsertLog >>

\* the entry of upsertLog for one call of sync_raw_reviews_to_supabase
Offer(reviews, from, synced_count) ==
  [chunk |-> from, offered |-> Ids(reviews), written |-> synced_count]

\* a loop that gives up the run at the first upsert that raises
SyncAbortsOnFailure ==
  /\ pc = "sync"
  /\ \E fails \in BOOLEAN :
       LET synced_count == IF fails THEN 0 ELSE Len(valid_reviews)
       IN  /\ db' = IF fails THEN db ELSE Upsert(db, valid_reviews)
           /\ total_synced_count' =
                IF synced_count > 0 THEN total_synced_count + synced_count
                ELSE total_synced_count
           /\ upsertLog' = Append(upsertLog, Offer(valid_reviews, i, synced_count))
           /\ pc' = IF fails THEN "abort" ELSE "loop"
  /\ i' = i + PROCESSING_BATCH_SIZE
  /\ UNCHANGED << inputVars, runVars, topic_list, primary_app_id, all_scraped_reviews,
                  existing_ids, reviews_to_process, batch, valid_reviews,
                  analyzed_reviews, j, playVars, fetchLog, reply, chunkLog,
                  inferenceLog >>

\* a loop that an upsert's failure ends, leaving the later chunks
SyncBreaksOnFailure ==
  /\ pc = "sync"
  /\ \E fails \in BOOLEAN :
       LET synced_count == IF fails THEN 0 ELSE Len(valid_reviews)
       IN  /\ db' = IF fails THEN db ELSE Upsert(db, valid_reviews)
           /\ total_synced_count' =
                IF synced_count > 0 THEN total_synced_count + synced_count
                ELSE total_synced_count
           /\ upsertLog' = Append(upsertLog, Offer(valid_reviews, i, synced_count))
           /\ pc' = IF fails THEN "done" ELSE "loop"
  /\ i' = i + PROCESSING_BATCH_SIZE
  /\ UNCHANGED << inputVars, runVars, topic_list, primary_app_id, all_scraped_reviews,
                  existing_ids, reviews_to_process, batch, valid_reviews,
                  analyzed_reviews, j, playVars, fetchLog, reply, chunkLog,
                  inferenceLog >>

\* a total that counts the rows offered, written or not
SyncCountsOffered ==
  /\ pc = "sync"
  /\ \E fails \in BOOLEAN :
       LET synced_count == IF fails THEN 0 ELSE Len(valid_reviews)
       IN  /\ db' = IF fails THEN db ELSE Upsert(db, valid_reviews)
           /\ total_synced_count' = total_synced_count + Len(valid_reviews)
           /\ upsertLog' = Append(upsertLog, Offer(valid_reviews, i, synced_count))
  /\ i' = i + PROCESSING_BATCH_SIZE
  /\ pc' = "loop"
  /\ UNCHANGED << inputVars, runVars, topic_list, primary_app_id, all_scraped_reviews,
                  existing_ids, reviews_to_process, batch, valid_reviews,
                  analyzed_reviews, j, playVars, fetchLog, reply, chunkLog,
                  inferenceLog >>

\* lines 206-210 and sync_raw_reviews_to_supabase (124-133): the upsert
\* raises (0) or writes the rows and reports them
Sync ==
  /\ pc = "sync"
  /\ \E fails \in BOOLEAN :
       LET synced_count == IF fails THEN 0 ELSE Len(valid_reviews)
       IN  /\ db' = IF fails THEN db ELSE Upsert(db, valid_reviews)
           /\ total_synced_count' =
                IF synced_count > 0 THEN total_synced_count + synced_count
                ELSE total_synced_count
           /\ upsertLog' = Append(upsertLog, Offer(valid_reviews, i, synced_count))
  /\ i' = i + PROCESSING_BATCH_SIZE
  /\ pc' = "loop"
  /\ UNCHANGED << inputVars, runVars, topic_list, primary_app_id, all_scraped_reviews,
                  existing_ids, reviews_to_process, batch, valid_reviews,
                  analyzed_reviews, j, playVars, fetchLog, reply, chunkLog,
                  inferenceLog >>

(***************************************************************************)
(* The run: run_pipeline from its call to its return.                      *)
(***************************************************************************)
\* most reviews a source holds in a whole run
MaxRunSource == 2

\* the texts of the reviews of a whole run: one blank, one not
RunContents == { << >>, << "a" >> }

\* the replies of a whole run, one of each kind: no object; an object with
\* both fields and a grocery topic; with a games topic; with a sentiment
\* outside the three asked for and a topic of both lists
RunReplies ==
  { << Prose >>,
    << LBrace, Field("sentiment", "Positive"), Field("topic", "Pricing & Value"),
       RBrace >>,
    << Prose, LBrace, Field("sentiment", "Positive"),
       Field("topic", "Trust & Fair Play"), RBrace >>,
    << LBrace, Field("sentiment", "Mixed"), Field("topic", "Customer Support"),
       RBrace, Prose >> }

\* the rows stored before the run: a Google Play review and an App Store
\* review of this app, each under its store's identifier, and a row of
\* another app
InitialRows ==
  { [id |-> << "g", 1 >>, app_id |-> GoogleId],
    [id |-> << "a", 1 >>, app_id |-> AppleName],
    [id |-> << "g", 2 >>, app_id |-> "com.other.app"] }

\* The UI offers the taxonomy's keys; run_pipeline checks the key itself.
\* A source that is not configured, and everything behind an invalid
\* configuration, is never read: it is left empty.
Init ==
  /\ industry \in { "grocery", "games", "travel" }
  /\ google_app_id \in { "", GoogleId }
  /\ apple_app_name \in { "", AppleName }
  /\ playSource \in
       IF industry \in DOMAIN TOPIC_LISTS /\ google_app_id # ""
       THEN Sources("g", MaxRunSource, { Today }, RunContents) ELSE { << >> }
  /\ appleSource \in
       IF industry \in DOMAIN TOPIC_LISTS /\ apple_app_name # ""
       THEN Sources("a", MaxRunSource, { Today }, RunContents) ELSE { << >> }
  /\ db \in IF industry \in DOMAIN TOPIC_LISTS
             /\ (google_app_id # "" \/ apple_app_name # "")
            THEN SUBSET InitialRows ELSE { {} }
  /\ pc = "validate"
  /\ topic_list = << >>
  /\ primary_app_id = ""
  /\ batch = << >>
  /\ Fresh
  /\ run = 1
  /\ persisted = {}

Next ==
  \/ Validate
  \/ ScrapePlayStart
  \/ PlayPage
  \/ PlayRaise
  \/ ScrapeApple
  \/ Connect
  \/ FetchExistingAndDedup
  \/ LlmSetup
  \/ NextBatch
  \/ ClassifyRecord(RunReplies)
  \/ FilterValid
  \/ Sync

Spec == Init /\ [][Next]_vars

\* The run under fairness: run_pipeline is one sequential call, so while a
\* step is left it is taken.  The taxonomies differ in nothing the run's
\* progress depends on, and of the stored rows only whether the scraped ids
\* are among them: one taxonomy, and the datastore empty or full.
InitFair ==
  /\ Init
  /\ industry \in { "grocery", "travel" }
  /\ db \in { {}, InitialRows }

FairSpec == InitFair /\ [][Next]_vars /\ WF_vars(Next)

(***************************************************************************)
(* Run after run: the Start Pipeline button (lines 228-235) calls          *)
(* run_pipeline again with the same inputs, the sources and the datastore  *)
(* being what the run before left.                                         *)
(***************************************************************************)
\* most calls of run_pipeline
MaxRuns == 2

\* where run_pipeline returns: the end of the loop (line 213), nothing
\* scraped (163), nothing new (179), and the aborts (142, 147, 166, 174,
\* 184, 191)
Returns == { "done", "no_reviews", "no_new_reviews", "abort" }

\* the ids of the upserts that were written
Written(log) ==
  UNION { { log[n].offered[k] : k \in 1..Len(log[n].offered) } :
            n \in { m \in 1..Len(log) : log[m].written > 0 } }

\* the call after a return: every local and the record of the run start
\* anew (compare Fresh); the ids the run wrote are kept in persisted
Restart ==
  /\ pc \in Returns
  /\ run < MaxRuns
  /\ run' = run + 1
  /\ persisted' = persisted \cup Written(upsertLog)
  /\ pc' = "validate"
  /\ topic_list' = << >>
  /\ primary_app_id' = ""
  /\ batch' = << >>
  /\ all_scraped_reviews' = << >>
  /\ existing_ids' = {}
  /\ reviews_to_process' = << >>
  /\ i' = 0
  /\ j' = 0
  /\ valid_reviews' = << >>
  /\ total_synced_count' = 0
  /\ all_reviews' = << >>
  /\ processed_count' = 0
  /\ token' = None
  /\ result' = << >>
  /\ analyzed_reviews' = << >>
  /\ called' = {}
  /\ raised' = {}
  /\ playReturned' = << >>
  /\ appleReturned' = << >>
  /\ reply' = NoOutcome
  /\ chunkLog' = << >>
  /\ inferenceLog' = << >>
  /\ upsertLog' = << >>
  /\ UNCHANGED << inputVars, db >>

NextRerun == Next \/ Restart

SpecRerun == Init /\ [][NextRerun]_vars

(***************************************************************************)
(* The Classifier alone: analyze_reviews_with_llm(model, review_list,      *)
(* topic_list) on every chunk of one or two records of which at most one   *)
(* has text, under each taxonomy and every reply of at most MaxReply       *)
(* tokens.                                                                 *)
(***************************************************************************)
Scraped(k, text) ==
  NormalizePlay(Raw("g", k, Today, text), GoogleId)

ClassifierChunks ==
  { << Scraped(1, t) >> : t \in Texts }
    \cup { << Scraped(1, p[1]), Scraped(2, p[2]) >> :
             p \in { q \in Texts \X Texts :
                       Strip(q[1]) = << >> \/ Strip(q[2]) = << >> } }

InitClassifier ==
  /\ industry \in DOMAIN TOPIC_LISTS
  /\ google_app_id = GoogleId
  /\ apple_app_name = ""
  /\ playSource = << >>
  /\ appleSource = << >>
  /\ db = {}
  /\ pc = "classify"
  /\ topic_list = TOPIC_LISTS[industry]
  /\ primary_app_id = GoogleId
  /\ batch \in ClassifierChunks
  /\ Fresh
  /\ run = 1
  /\ persisted = {}

NextClassifier == ClassifyRecord(Replies)

SpecClassifier == InitClassifier /\ [][NextClassifier]_vars

(***************************************************************************)
(* The Fetchers alone: scrape_play_store and scrape_app_store on every     *)
(* source of at most MaxSource reviews dated 0..Today, newest first.       *)
(***************************************************************************)
InitFetcher ==
  /\ industry = "grocery"
  /\ google_app_id \in { "", GoogleId }
  /\ apple_app_name \in { "", AppleName }
  /\ google_app_id # "" \/ apple_app_name # ""
  /\ playSource \in
       IF google_app_id # ""
       THEN Sources("g", MaxSource, 0..Today, { << "a" >> }) ELSE { << >> }
  /\ appleSource \in
       IF apple_app_name # ""
       THEN Sources("a", MaxSource, 0..Today, { << "a" >> }) ELSE { << >> }
  /\ db = {}
  /\ pc = "scrape_play"
  /\ topic_list = TOPIC_LISTS[industry]
  /\ primary_app_id = (IF google_app_id # "" THEN google_app_id ELSE apple_app_name)
  /\ batch = << >>
  /\ Fresh
  /\ run = 1
  /\ persisted = {}

NextFetcher ==
  \/ ScrapePlayStart
  \/ PlayPage
  \/ PlayRaise
  \/ ScrapeApple

SpecFetcher == InitFetcher /\ [][NextFetcher]_vars

(***************************************************************************)
(* Properties.                                                             *)
(***************************************************************************)
\* the positions run_pipeline is at once Dedup has returned
PostDedup == { "llm_setup", "no_new_reviews", "loop", "classify", "sync", "done" }

\* the positions of the candidates whose id is not among the existing ids
Kept(candidates, existing) ==
  { k \in 1..Len(candidates) : candidates[k].id \notin existing }

\* how many members of S are at most k
Rank(S, k) == Cardinality({ x \in S : x <= k })

\* C1: Dedup returns exactly the candidates whose id is not in the set of
\* ids stored for the app identifier, in their original order (so the same
\* candidates and the same set always give the same output).
C1_DedupExact ==
  /\ pc \in { "llm_setup", "no_new_reviews" } =>
       existing_ids = { row.id : row \in { x \in db : x.app_id = primary_app_id } }
  /\ pc \in PostDedup =>
       LET keep == Kept(all_scraped_reviews, existing_ids)
       IN  /\ Len(reviews_to_process) = Cardinality(keep)
           /\ \A k \in keep :
                reviews_to_process[Rank(keep, k)] = all_scraped_reviews[k]

\* C1's case, the spec's scenario: industry games, existing ids {A},
\* candidates [A, B], output [B].
C1_Witness ==
  /\ industry = "games"
  /\ pc = "llm_setup"
  /\ Len(all_scraped_reviews) = 2
  /\ existing_ids = { all_scraped_reviews[1].id }
  /\ reviews_to_process = << all_scraped_reviews[2] >>

(***************************************************************************)
(* The Classifier's properties (under SpecClassifier).  While the          *)
(* Classifier runs, the record it dealt with last is review_list[j], here  *)
(* batch[j], and reply is what the inference call for it did.              *)
(***************************************************************************)
\* a text is blank: empty, or whitespace only
AllWhitespace(text) == \A k \in 1..Len(text) : text[k] = " "

\* the last record had text, and the provider returned a reply for it
Answered ==
  /\ pc = "classify"
  /\ j >= 1
  /\ ~AllWhitespace(batch[j].ReviewText)
  /\ reply.kind = "text"

\* the output list has a record for each record dealt with, in order
OutputKeepsPace ==
  /\ Len(analyzed_reviews) = j
  /\ \A k \in 1..j : analyzed_reviews[k].id = batch[k].id

\* C2 as stated: every record the Classifier returns has a topic of the
\* configured industry's taxonomy.
C2_AllTopicsInTaxonomy ==
  pc = "classify" =>
    \A k \in 1..Len(analyzed_reviews) :
      InList(analyzed_reviews[k].Topic, topic_list)

\* C2, amended: every record with non-blank text that the Classifier
\* returns has a topic of the configured industry's taxonomy (a blank
\* record keeps the sentinel, which is in no taxonomy).
C2_TextTopicsInTaxonomy ==
  pc = "classify" =>
    \A k \in 1..Len(analyzed_reviews) :
      IF AllWhitespace(analyzed_reviews[k].ReviewText)
      THEN ~InList(analyzed_reviews[k].Topic, topic_list)
      ELSE InList(analyzed_reviews[k].Topic, topic_list)

\* C2's case: under the games taxonomy the model answers with a grocery
\* topic, and the record gets the catch-all.
C2_Witness ==
  /\ Answered
  /\ industry = "games"
  /\ reply.text = << LBrace, Field("topic", "Pricing & Value"), RBrace >>
  /\ analyzed_reviews[j].Topic = "Miscellaneous"

\* the braces of s nest: the depth never falls below 0 and ends at 0
RECURSIVE Nests(_, _)
Nests(s, depth) ==
  IF s = << >> THEN depth = 0
  ELSE IF Head(s) = LBrace THEN Nests(Tail(s), depth + 1)
  ELSE IF Head(s) = RBrace THEN depth > 0 /\ Nests(Tail(s), depth - 1)
  ELSE Nests(Tail(s), depth)

\* t contains a balanced object: "{" ... "}" with nested braces in between
HasBalancedObject(t) ==
  \E a \in 1..Len(t) : \E b \in (a + 1)..Len(t) :
    t[a] = LBrace /\ t[b] = RBrace /\ Nests(SubSeq(t, a, b), 0)

\* C4: if the reply for a record with text contains no balanced object,
\* the record ends with sentiment "Error" and topic "Miscellaneous" and
\* stays in the output: the output has as many records as the input.
C4_FallbackOnMalformed ==
  pc = "classify" =>
    /\ OutputKeepsPace
    /\ Answered /\ ~HasBalancedObject(reply.text) =>
         analyzed_reviews[j] =
           [batch[j] EXCEPT !.Sentiment = "Error", !.Topic = "Miscellaneous"]

\* C4's case: the second record of a chunk of two got a reply with braces
\* that never balance, and both records are in the output.
C4_Witness ==
  /\ Answered
  /\ j = 2
  /\ Len(batch) = 2
  /\ reply.text = << RBrace, Prose, LBrace >>
  /\ Len(analyzed_reviews) = 2
  /\ analyzed_reviews[2].Sentiment = "Error"

\* the reply's object, as the Classifier cuts it: first "{" to last "}"
HasObject(t) ==
  \E a \in 1..Len(t) : \E b \in (a + 1)..Len(t) : t[a] = LBrace /\ t[b] = RBrace
ObjectOf(t) ==
  LET a == CHOOSE x \in 1..Len(t) :
             t[x] = LBrace /\ \A y \in 1..(x - 1) : t[y] # LBrace
      b == CHOOSE x \in 1..Len(t) :
             t[x] = RBrace /\ \A y \in (x + 1)..Len(t) : t[y] # RBrace
  IN  SubSeq(t, a + 1, b - 1)

\* the three kinds of failure, and what a decoded object says
Decodes(t) == HasObject(t) /\ \A k \in 1..Len(ObjectOf(t)) : ObjectOf(t)[k].kind = "field"
DecodeFails(t) == HasObject(t) /\ ~Decodes(t)
Has(t, key) == \E k \in 1..Len(ObjectOf(t)) : ObjectOf(t)[k].key = key
Says(t, key, v) ==
  \E k \in 1..Len(ObjectOf(t)) :
    /\ ObjectOf(t)[k] = Field(key, v)
    /\ \A m \in (k + 1)..Len(ObjectOf(t)) : ObjectOf(t)[m].key # key
TopicOutside(t) ==
  Decodes(t) /\ \E k \in 1..Len(ObjectOf(t)) :
    /\ Says(t, "topic", ObjectOf(t)[k].val)
    /\ ~InList(ObjectOf(t)[k].val, topic_list)

\* C5 as stated: a decode failure, a missing field and a topic outside the
\* taxonomy all give sentiment "Error" and topic "Miscellaneous".
C5_OneFallbackForAll ==
  Answered /\ ( \/ DecodeFails(reply.text)
                \/ Decodes(reply.text) /\ ~Has(reply.text, "sentiment")
                \/ Decodes(reply.text) /\ ~Has(reply.text, "topic")
                \/ TopicOutside(reply.text) )
    => /\ analyzed_reviews[j].Sentiment = "Error"
       /\ analyzed_reviews[j].Topic = "Miscellaneous"

\* C5, amended: the fallback is per field.  A decode failure gives
\* sentiment "Error" and topic "Miscellaneous"; a decoded object without
\* sentiment gives sentiment "Error"; one without topic, or with a topic
\* outside the taxonomy, gives topic "Miscellaneous"; a field the object
\* does give (a sentiment; a topic of the taxonomy) is kept.
C5_FallbackPerField ==
  Answered =>
    LET t   == reply.text
        out == analyzed_reviews[j]
    IN  /\ DecodeFails(t) => out.Sentiment = "Error" /\ out.Topic = "Miscellaneous"
        /\ Decodes(t) /\ ~Has(t, "sentiment") => out.Sentiment = "Error"
        /\ Decodes(t) /\ ~Has(t, "topic") => out.Topic = "Miscellaneous"
        /\ TopicOutside(t) => out.Topic = "Miscellaneous"
        /\ Decodes(t) /\ Has(t, "sentiment") => Says(t, "sentiment", out.Sentiment)
        /\ Decodes(t) /\ Has(t, "topic") /\ ~TopicOutside(t) =>
             Says(t, "topic", out.Topic)

\* C5's case: a topic outside the grocery taxonomy beside a sentiment; the
\* topic falls back and the sentiment is kept.
C5_Witness ==
  /\ Answered
  /\ industry = "grocery"
  /\ reply.text = << LBrace, Field("sentiment", "Positive"),
                     Field("topic", "Trust & Fair Play"), RBrace >>
  /\ analyzed_reviews[j].Sentiment = "Positive"
  /\ analyzed_reviews[j].Topic = "Miscellaneous"

\* the members of the sequence
Range(seq) == { seq[k] : k \in 1..Len(seq) }

\* C6: a record whose text is blank or whitespace only is never sent to
\* the inference call and leaves the Classifier with the sentinel topic
\* and sentiment it came with.
C6_BlankPassesThrough ==
  pc = "classify" =>
    \A k \in 1..j :
      AllWhitespace(batch[k].ReviewText) =>
        /\ batch[k].id \notin Range(inferenceLog)
        /\ Len(analyzed_reviews) >= k
        /\ analyzed_reviews[k] = batch[k]
        /\ analyzed_reviews[k].Topic = "N/A"
        /\ analyzed_reviews[k].Sentiment = "N/A"

\* C6's case: a whitespace-only record was passed over and the record
\* after it was sent to the model.
C6_Witness ==
  /\ pc = "classify"
  /\ j = 2
  /\ batch[1].ReviewText = << " " >>
  /\ analyzed_reviews[1] = batch[1]
  /\ inferenceLog = << batch[2].id >>

\* t is prose, then at position a an object of the two fields with a
\* sentiment s and a topic tp, then prose; the prose before the object has
\* no "{", so the object is the first balanced object of t
TwoFieldObjectAt(t, a, s, tp) ==
  /\ a + 3 <= Len(t)
  /\ \A y \in 1..(a - 1) : t[y] # LBrace
  /\ SubSeq(t, a, a + 3) \in
       { << LBrace, Field("sentiment", s), Field("topic", tp), RBrace >>,
         << LBrace, Field("topic", tp), Field("sentiment", s), RBrace >> }

\* C7: for a reply of the form prose, a valid two-field object, prose, the
\* Classifier sets the record's sentiment and topic from the object.
C7_ProseAroundObject ==
  Answered =>
    \A a \in 1..Len(reply.text) :
      \A s \in { "Positive", "Negative", "Neutral" } :
        \A tp \in Range(topic_list) :
          TwoFieldObjectAt(reply.text, a, s, tp) =>
            /\ analyzed_reviews[j].Sentiment = s
            /\ analyzed_reviews[j].Topic = tp

(***************************************************************************)
(* The run's properties (under Spec) and the Fetchers' (under SpecFetcher).*)
(***************************************************************************)
\* C3: every record handed to the Persister has a topic of the configured
\* industry's taxonomy; a record whose topic is still a sentinel after
\* classification is not handed over.
C3_PersistedTopicsInTaxonomy ==
  pc = "sync" =>
    /\ valid_reviews # << >>
    /\ \A k \in 1..Len(valid_reviews) :
         /\ InList(valid_reviews[k].Topic, topic_list)
         /\ valid_reviews[k].Topic \notin { "N/A", "Error" }
    /\ \A k \in 1..Len(analyzed_reviews) :
         analyzed_reviews[k].Topic \in { "N/A", "Error" } =>
           analyzed_reviews[k].id \notin Range(Ids(valid_reviews))

\* C3's case: of a chunk of two, the blank record kept the sentinel and
\* only the other one, marked by the fallback, is handed to the Persister.
C3_Witness ==
  /\ pc = "sync"
  /\ Len(analyzed_reviews) = 2
  /\ analyzed_reviews[1].Topic = "N/A"
  /\ valid_reviews = << analyzed_reviews[2] >>
  /\ analyzed_reviews[2].Topic = "Miscellaneous"

\* C8: neither fetcher returns a record dated before the cutoff, however
\* many pages the source has (the sources yield their reviews newest
\* first).
C8_CutoffEnforced ==
  /\ \A k \in 1..Len(all_reviews) : all_reviews[k].Date >= cutoff_date
  /\ \A k \in 1..Len(playReturned) : playReturned[k].Date >= cutoff_date
  /\ \A k \in 1..Len(appleReturned) : appleReturned[k].Date >= cutoff_date
  /\ \A k \in 1..Len(all_scraped_reviews) :
       all_scraped_reviews[k].Date >= cutoff_date

StrictlyDecreasing(source) ==
  \A k \in 1..(Len(source) - 1) : source[k].at > source[k + 1].at

\* C8's case: both sources have strictly decreasing dates that cross the
\* cutoff, Google Play's on its second page; both fetchers returned the
\* newer reviews.
C8_Witness ==
  /\ pc = "check_scraped"
  /\ StrictlyDecreasing(playSource) /\ StrictlyDecreasing(appleSource)
  /\ Len(playSource) > PLAY_PAGE_COUNT
  /\ playSource[Len(playSource)].at < cutoff_date
  /\ Len(appleSource) > 1
  /\ appleSource[Len(appleSource)].at < cutoff_date
  /\ Len(playReturned) = PLAY_PAGE_COUNT
  /\ appleReturned # << >>

RECURSIVE SumLen(_)
SumLen(chunks) == IF chunks = << >> THEN 0 ELSE Len(Head(chunks)) + SumLen(Tail(chunks))

\* C9: the chunks given to the Classifier are consecutive and do not
\* overlap; all have PROCESSING_BATCH_SIZE records but the last, which has
\* N mod PROCESSING_BATCH_SIZE (or PROCESSING_BATCH_SIZE if that is 0);
\* their sizes sum to N, and every novel record is in exactly one chunk.
C9_Chunking ==
  LET N == Len(reviews_to_process)
      C == PROCESSING_BATCH_SIZE
  IN  /\ \A k \in 1..Len(chunkLog) :
           /\ (k - 1) * C < N
           /\ Len(chunkLog[k]) = (IF k * C <= N THEN C ELSE N - (k - 1) * C)
           /\ \A m \in 1..Len(chunkLog[k]) :
                chunkLog[k][m] = reviews_to_process[(k - 1) * C + m].id
      /\ pc = "done" =>
           /\ chunkLog # << >>
           /\ SumLen(chunkLog) = N
           /\ Len(chunkLog[Len(chunkLog)]) = (IF N % C = 0 THEN C ELSE N % C)
           /\ \A p \in 1..N :
                Cardinality({ km \in (1..Len(chunkLog)) \X (1..C) :
                               /\ km[2] <= Len(chunkLog[km[1]])
                               /\ chunkLog[km[1]][km[2]] = reviews_to_process[p].id }) = 1

\* C9's case: three novel records went through the loop as a chunk of two
\* and a chunk of one.
C9_Witness ==
  /\ pc = "done"
  /\ Len(reviews_to_process) = 3
  /\ Len(chunkLog) = 2
  /\ Len(chunkLog[1]) = 2
  /\ Len(chunkLog[2]) = 1

BothConfigured ==
  industry \in DOMAIN TOPIC_LISTS /\ google_app_id # "" /\ apple_app_name # ""

\* the positions of run_pipeline up to the end of the scraping
Scraping == { "validate", "scrape_play", "play_loop", "scrape_apple" }

\* the ids of the reviews of a source that are not older than the cutoff
NewEnough(source) ==
  LET n == Cardinality({ k \in 1..Len(source) : source[k].at >= cutoff_date })
  IN  [k \in 1..n |-> source[k].reviewId]

\* C10: with both sources configured, when the client of one raises, the
\* other source's fetcher is still called and what it returns is in the
\* aggregate given to Dedup; the run goes on past the scraping.
C10_SourceFailureIsolated ==
  BothConfigured /\ raised # {} /\ pc \notin Scraping =>
    /\ { "play", "apple" } \subseteq called
    /\ all_scraped_reviews = playReturned \o appleReturned
    /\ "apple" \notin raised => Ids(appleReturned) = NewEnough(appleSource)
    /\ "apple" \in raised => appleReturned = << >>

\* C10's case: Google Play's client raised after a page had been
\* collected; the App Store was scraped all the same, and the run reached
\* Dedup with the records of both.
C10_Witness ==
  /\ BothConfigured
  /\ raised = { "play" }
  /\ pc = "dedup"
  /\ playReturned # << >>
  /\ Len(appleReturned) = 2
  /\ all_scraped_reviews = playReturned \o appleReturned

\* C11: each fetcher returns at most MAX_REVIEWS_PER_SOURCE records,
\* whatever number of records and pages the provider returns.
C11_CapEnforced ==
  /\ Len(playReturned) <= MAX_REVIEWS_PER_SOURCE
  /\ Len(appleReturned) <= MAX_REVIEWS_PER_SOURCE

\* the configuration run_pipeline refuses: an industry that is no key of
\* TOPIC_LISTS, or neither identifier
InvalidConfiguration ==
  \/ industry \notin DOMAIN TOPIC_LISTS
  \/ (google_app_id = "" /\ apple_app_name = "")

\* C12: with an unknown industry or with neither identifier, run_pipeline
\* aborts at its validation and has called nothing: no review source, no
\* datastore client or query, no model setup or inference call, no upsert.
C12_InvalidAbortsClean ==
  (InvalidConfiguration /\ pc # "validate")
    => /\ pc = "abort"
       /\ called = {}
       /\ all_scraped_reviews = << >>
       /\ chunkLog = << >>
       /\ inferenceLog = << >>
       /\ upsertLog = << >>

C12_Witness ==
  /\ pc = "abort"
  /\ industry \notin DOMAIN TOPIC_LISTS
  /\ google_app_id # ""
  /\ apple_app_name # ""
  /\ called = {}

\* C13: a run that aborts after scraping (the datastore's credentials are
\* missing or its client fails, the query of the existing ids fails, the
\* inference key is missing, the model's setup fails) has issued no
\* inference call and performed no upsert.
C13_AbortBeforeInference ==
  (pc = "abort" /\ ~InvalidConfiguration)
    => /\ all_scraped_reviews # << >>
       /\ chunkLog = << >>
       /\ inferenceLog = << >>
       /\ upsertLog = << >>

\* the last of the four: everything before the model's setup went well,
\* there are novel reviews, and genai's setup raised
C13_Witness ==
  /\ pc = "abort"
  /\ { "create_client", "select", "genai" } \subseteq called
  /\ reviews_to_process # << >>
  /\ inferenceLog = << >>

\* scrape_play_store has returned without its client raising
PlayReturnedNormally ==
  /\ "play" \in called
  /\ "play" \notin raised
  /\ pc # "play_loop"

\* C14: when the Play source holds fewer reviews than the cap, all newer
\* than the cutoff, and the provider gives no continuation token with its
\* last non-empty page, scrape_play_store returns the reviews of every
\* page, the last one included, in the source's order.
C14_LastPageKept ==
  ( /\ PlayReturnedNormally
    /\ playSource # << >>
    /\ Len(playSource) < MAX_REVIEWS_PER_SOURCE
    /\ \A k \in 1..Len(playSource) : playSource[k].at >= cutoff_date
    /\ result # << >>
    /\ result[Len(result)] = playSource[Len(playSource)]
    /\ ~token.some )
    => Ids(playReturned) = [k \in 1..Len(playSource) |-> playSource[k].reviewId]

\* where the chunks of reviews_to_process start (line 194)
ChunkStarts ==
  { k \in 0..(Len(reviews_to_process) - 1) : k % PROCESSING_BATCH_SIZE = 0 }

\* the records of the chunk at k that have text: after classification they
\* are the chunk's valid records
WithText(k) ==
  SelectSeq(Slice(reviews_to_process, k), LAMBDA r : ~IsBlankText(r))

\* the calls of the Persister for the chunk at k
OffersOf(k) == { n \in 1..Len(upsertLog) : upsertLog[n].chunk = k }

\* the chunk at k was given to the Classifier, and its valid records, if it
\* has any, were given to the Persister in exactly one call
ServedOnce(k) ==
  /\ \E n \in 1..Len(chunkLog) : chunkLog[n] = Ids(Slice(reviews_to_process, k))
  /\ IF WithText(k) = << >> THEN OffersOf(k) = {}
     ELSE /\ Cardinality(OffersOf(k)) = 1
          /\ \A n \in OffersOf(k) : upsertLog[n].offered = Ids(WithText(k))

\* C15: once the loop over the chunks is entered, the run comes to its end
\* with every chunk classified and, if it has valid records, offered to the
\* Persister exactly once, whether or not earlier upserts failed: a failed
\* upsert neither ends the loop nor is repeated.
C15_EveryChunkServed ==
  (pc = "loop") ~> (pc = "done" /\ \A k \in ChunkStarts : ServedOnce(k))

\* two chunks, the first one's upsert failed, the second one's was made
C15_Witness ==
  /\ pc = "done"
  /\ Len(upsertLog) = 2
  /\ upsertLog[1].written = 0
  /\ upsertLog[2].chunk = PROCESSING_BATCH_SIZE
  /\ upsertLog[2].written > 0

\* the sum of the written-row counts the Persister returned
RECURSIVE WrittenSum(_)
WrittenSum(log) ==
  IF log = << >> THEN 0 ELSE Head(log).written + WrittenSum(Tail(log))

\* C16: at the end of the loop the total that is reported is the sum, over
\* the chunks, of the written-row count returned for the chunk's upsert: 0
\* for an upsert that failed, nothing for a chunk that was skipped.
C16_TotalIsSumOfWritten ==
  pc = "done"
    => /\ total_synced_count = WrittenSum(upsertLog)
       /\ \A n \in 1..Len(upsertLog) :
            upsertLog[n].written \in { 0, Len(upsertLog[n].offered) }

\* the first chunk written, the second one's upsert failed
C16_Witness ==
  /\ pc = "done"
  /\ Len(upsertLog) = 2
  /\ upsertLog[1].written = PROCESSING_BATCH_SIZE
  /\ upsertLog[2].written = 0
  /\ upsertLog[2].offered # << >>
  /\ total_synced_count = PROCESSING_BATCH_SIZE

\* the novel records that have text, in their order
NovelWithText == SelectSeq(reviews_to_process, LAMBDA r : ~IsBlankText(r))

\* C17: the model is called exactly once for each novel record that has
\* text and for no other record, and never a second time for a record
\* whose call failed or whose reply was malformed.
C17_OneCallPerRecord ==
  /\ \A m, n \in 1..Len(inferenceLog) : inferenceLog[m] = inferenceLog[n] => m = n
  /\ \A n \in 1..Len(inferenceLog) :
       /\ inferenceLog[n] \notin existing_ids
       /\ \E k \in 1..Len(NovelWithText) : NovelWithText[k].id = inferenceLog[n]
  /\ pc = "done" => inferenceLog = Ids(NovelWithText)

\* four reviews scraped, one of them stored already and one blank: two
\* calls, the last of which failed and was not repeated
C17_Witness ==
  /\ pc = "done"
  /\ Len(all_scraped_reviews) = 4
  /\ Len(reviews_to_process) = 3
  /\ Len(inferenceLog) = 2
  /\ Len(valid_reviews) = 1
  /\ valid_reviews[1].id = inferenceLog[2]
  /\ valid_reviews[1].Sentiment = "Error"

\* C18: whichever of the external calls fail (a fetch, the datastore's
\* connection or query, the model's setup, an inference call, an upsert),
\* run_pipeline ends by returning, at the end of the loop, at one of the
\* nothing-to-do returns or at an abort: no exception of a provider leaves
\* it and the run does not go on for ever.
C18_AlwaysReturns == <>[](pc \in Returns)

\* a run through the whole of run_pipeline in which a fetch, an inference
\* call and every upsert failed
C18_Witness ==
  /\ pc = "done"
  /\ raised # {}
  /\ inferenceLog # << >>
  /\ upsertLog # << >>
  /\ \A n \in 1..Len(upsertLog) : upsertLog[n].written = 0
  /\ \E r \in Range(valid_reviews) : r.Sentiment = "Error"

\* C19: in a second run with the same configuration and the same source,
\* no review that the first run wrote to the datastore is kept by Dedup or
\* sent to the model again, with one source configured and with both.
C19_PersistedNotReclassified ==
  run > 1
    => \A id \in persisted :
         /\ pc \in PostDedup => id \notin Range(Ids(reviews_to_process))
         /\ id \notin Range(inferenceLog)

\* C20: every record given to the Persister has a sentiment among Positive,
\* Negative, Neutral and Error, whatever sentiment the decoded reply has.
C20_PersistedSentimentInSet ==
  pc = "sync"
    => \A r \in Range(valid_reviews) :
         r.Sentiment \in { "Positive", "Negative", "Neutral", "Error" }

====
